---- MODULE Spec2Model ----
(***************************************************************************)
(* Model of the Titanic tutorial notebooks:                                *)
(*   06_roc_sensitivity_specificity.ipynb  calculate_accuracy, the manual  *)
(*        ROC and sensitivity-specificity threshold sweeps, roc_curve, auc *)
(*   unnamed/part_000   grid / random search (one-off standardisation)     *)
(*   unnamed/part_001   regularisation (sample, k-fold loop)               *)
(*   10_feature_expansion.ipynb  standardise_data, k-fold loop,            *)
(*        PolynomialFeatures, forward feature selection                    *)
(*   06 file, second notebook  Monte Carlo Dropout                         *)
(*   all notebooks, 22_check_calibration.ipynb  download, load and split   *)
(*        cells run against one working directory                          *)
(*                                                                         *)
(* Numbers.  A NumPy float is modelled as an exact fraction                *)
(* [num, den] with den > 0 in lowest terms; den = 0 encodes the IEEE       *)
(* specials: 0/0 is nan, 1/0 is +inf, -1/0 is -inf.  Rounding of float64   *)
(* is not modelled.  Probabilities and cut-offs are integers in            *)
(* thousandths (0.305 is 305).                                             *)
(***************************************************************************)
EXTENDS Integers, Sequences, FiniteSets, TLC

\* ------------------------------------------------------------------ bounds
\* longest observed/predicted vector handed to calculate_accuracy
MaxLen == 5
\* number of cases in the test set of the ROC notebook
NumCases == 2
\* number of rows of X in the standardisation runs
NumRows == 3
\* number of passengers in processed_data.csv
NumPassengers == 153
\* number of notebook runs against one working directory
MaxRuns == 4
\* number of passengers in the test set of the Monte Carlo Dropout notebook
NumTestRows == 2
\* largest number of columns of X_df besides the 24 of the Titanic table
MaxFeatures == 6
\* largest slope of the accuracy signal of the forward selection
MaxSlope == 2

\* --------------------------------------------------------------- constants
\* data.sample(150)
SampleSize == 150
\* features of a passenger (columns of X)
NumFeatures == 24
\* len(reg_values)
NumRegValues == 9
\* StratifiedKFold(n_splits = 5)
n_splits == 5
\* num_estimates = 100
num_estimates == 100
\* maximum_features_to_choose = 20
maximum_features_to_choose == 20

\* -------------------------------------------------------------- arithmetic
Abs(n) == IF n < 0 THEN -n ELSE n

Sgn(n) == IF n < 0 THEN -1 ELSE IF n > 0 THEN 1 ELSE 0

RECURSIVE GCD(_, _)
GCD(a, b) == IF b = 0 THEN a ELSE GCD(b, a % b)

NaN == [num |-> 0, den |-> 0]

\* a float from numerator and denominator, IEEE specials when d = 0
MkFloat(n, d) ==
    IF d = 0 THEN [num |-> Sgn(n), den |-> 0]
    ELSE LET g == GCD(Abs(n), Abs(d))
         IN  [num |-> Sgn(d) * (n \div g), den |-> Abs(d) \div g]

IsNaN(a) == a.den = 0 /\ a.num = 0

IsInf(a) == a.den = 0 /\ a.num # 0

IsFinite(a) == a.den > 0

FromInt(n) == [num |-> n, den |-> 1]

FNeg(a) == [num |-> -a.num, den |-> a.den]

FAdd(a, b) ==
    IF a.den = 0 /\ b.den = 0
    THEN IF a.num = b.num THEN a ELSE NaN
    ELSE MkFloat(a.num * b.den + b.num * a.den, a.den * b.den)

FSub(a, b) == FAdd(a, FNeg(b))

FMul(a, b) == MkFloat(a.num * b.num, a.den * b.den)

FInv(a) == MkFloat(a.den, a.num)

FDiv(a, b) == FMul(a, FInv(b))

\* a <= b on finite floats
FLeq(a, b) == a.num * b.den <= b.num * a.den

\* numpy.int64 / numpy.int64: true division; a zero denominator gives nan or
\* inf and a RuntimeWarning
np_divide(n, d) == MkFloat(n, d)

\* Python's ZeroDivisionError semantics, which NumPy scalars do not have
division_raises_py(n, d) == d = 0

\* whether n / d raises: NumPy only warns, and warnings are filtered
division_raises(n, d) == FALSE

\* ------------------------------------------------------------ NumPy vectors
BoolVal(b) == IF b THEN 1 ELSE 0

RECURSIVE np_sum(_)
np_sum(v) == IF v = << >> THEN 0 ELSE BoolVal(Head(v)) + np_sum(Tail(v))

\* np.sum in place of np.mean
np_mean_nodiv(v) == FromInt(np_sum(v))

\* np.mean of a boolean vector
np_mean(v) == np_divide(np_sum(v), Len(v))

\* elementwise v == c
EqConst(v, c) == [i \in 1..Len(v) |-> v[i] = c]

\* elementwise a == b
EqVec(a, b) == [i \in 1..Len(a) |-> a[i] = b[i]]

\* elementwise a & b
AndVec(a, b) == [i \in 1..Len(a) |-> a[i] /\ b[i]]

\* ------------------------------------------------------ calculate_accuracy
observed_positives(observed) == EqConst(observed, 1)

observed_negatives(observed) == EqConst(observed, 0)

predicted_positives(predicted) == EqConst(predicted, 1)

predicted_negatives(predicted) == EqConst(predicted, 0)

true_positives(observed, predicted) ==
    AndVec(EqConst(predicted_positives(predicted), TRUE),
           EqConst(observed_positives(observed), TRUE))

\* slip: compares the observed positives with 1 instead of 0
false_positives_slip(observed, predicted) ==
    AndVec(EqConst(predicted_positives(predicted), TRUE),
           EqConst(observed_positives(observed), TRUE))

false_positives(observed, predicted) ==
    AndVec(EqConst(predicted_positives(predicted), TRUE),
           EqConst(observed_positives(observed), FALSE))

\* slip: takes the predicted negatives among the observed positives
true_negatives_slip(observed, predicted) ==
    AndVec(EqConst(predicted_negatives(predicted), TRUE),
           EqConst(observed_positives(observed), TRUE))

true_negatives(observed, predicted) ==
    AndVec(EqConst(predicted_negatives(predicted), TRUE),
           EqConst(observed_negatives(observed), TRUE))

calculate_accuracy(observed, predicted) ==
    LET tp == np_sum(true_positives(observed, predicted))
        fp == np_sum(false_positives(observed, predicted))
        tn == np_sum(true_negatives(observed, predicted))
        op == np_sum(observed_positives(observed))
        on == np_sum(observed_negatives(observed))
        accuracy == np_mean(EqVec(predicted, observed))
        precision == np_divide(tp, tp + fp)
        recall == np_divide(tp, op)
        sensitivity == recall
        f1 == FMul(FromInt(2),
                   FDiv(FMul(precision, recall), FAdd(precision, recall)))
        specificity == np_divide(tn, on)
        positive_likelihood ==
            FDiv(sensitivity, FSub(FromInt(1), specificity))
        negative_likelihood ==
            FDiv(FSub(FromInt(1), sensitivity), specificity)
        false_positive_rate == FSub(FromInt(1), specificity)
        false_negative_rate == FSub(FromInt(1), sensitivity)
        true_positive_rate == sensitivity
        true_negative_rate == specificity
        positive_predictive_value == np_divide(tp, op)
        negative_predictive_value == np_divide(tn, op)
    IN  [observed_positive_rate |-> np_mean(observed_positives(observed)),
         observed_negative_rate |-> np_mean(observed_negatives(observed)),
         predicted_positive_rate |-> np_mean(predicted_positives(predicted)),
         predicted_negative_rate |-> np_mean(predicted_negatives(predicted)),
         accuracy |-> accuracy,
         precision |-> precision,
         recall |-> recall,
         f1 |-> f1,
         sensitivity |-> sensitivity,
         specificity |-> specificity,
         positive_likelihood |-> positive_likelihood,
         negative_likelihood |-> negative_likelihood,
         false_positive_rate |-> false_positive_rate,
         false_negative_rate |-> false_negative_rate,
         true_positive_rate |-> true_positive_rate,
         true_negative_rate |-> true_negative_rate,
         positive_predictive_value |-> positive_predictive_value,
         negative_predictive_value |-> negative_predictive_value]

\* whether a call of calculate_accuracy ends in an exception: one of its
\* divisions raises
calculate_accuracy_raises(observed, predicted) ==
    LET tp == np_sum(true_positives(observed, predicted))
        fp == np_sum(false_positives(observed, predicted))
        op == np_sum(observed_positives(observed))
        on == np_sum(observed_negatives(observed))
        tn == np_sum(true_negatives(observed, predicted))
        r == calculate_accuracy(observed, predicted)
        \* the numerator of a finite float, 1 for nan and inf
        z(x) == IF IsFinite(x) THEN x.num ELSE 1
    IN  \/ division_raises(np_sum(EqVec(predicted, observed)), Len(observed))
        \/ division_raises(tp, tp + fp)
        \/ division_raises(tp, op)
        \/ division_raises(1, z(FAdd(r.precision, r.recall)))
        \/ division_raises(tn, on)
        \/ division_raises(1, z(FSub(FromInt(1), r.specificity)))
        \/ division_raises(1, z(r.specificity))
        \/ division_raises(tn, op)

\* ------------------------------------------------- threshold sweeps, ROC
\* probabilities of survival the fitted model can give, in thousandths
ProbValues == {150, 300, 305, 1000}

\* np.arange(start, stop, step): ceil((stop - start) / step) values from start
arange(start, stop, step) ==
    [i \in 1..((stop - start + step - 1) \div step) |-> start + (i - 1) * step]

\* slip: compares with > instead of >=
classify_gt(probability_survival, cutoff) ==
    [i \in 1..Len(probability_survival) |->
        BoolVal(probability_survival[i] > cutoff)]

\* predicted_survived = probability_survival >= cutoff (True is 1, False is 0)
classify(probability_survival, cutoff) ==
    [i \in 1..Len(probability_survival) |->
        BoolVal(probability_survival[i] >= cutoff)]

\* a < 0 as NumPy compares: FALSE for nan
FNegative(a) == a.num < 0

\* a <= 0 as NumPy compares: FALSE for nan
FNonPositive(a) == a.num < 0 \/ (a.num = 0 /\ a.den > 0)

\* np.diff(x)
np_diff(x) == [i \in 1..(Len(x) - 1) |-> FSub(x[i + 1], x[i])]

\* the trapezium between points i and i + 1
trapezium(y, x, i) ==
    FDiv(FMul(FSub(x[i + 1], x[i]), FAdd(y[i + 1], y[i])), FromInt(2))

\* the sum of the trapezia lo..hi, halving the range
RECURSIVE trapz_between(_, _, _, _)
trapz_between(y, x, lo, hi) ==
    IF lo > hi THEN FromInt(0)
    ELSE IF lo = hi THEN trapezium(y, x, lo)
    ELSE LET mid == (lo + hi) \div 2
         IN  FAdd(trapz_between(y, x, lo, mid), trapz_between(y, x, mid + 1, hi))

\* np.trapz(y, x)
np_trapz(y, x) == trapz_between(y, x, 1, Len(x) - 1)

\* sklearn.metrics.auc raises ValueError on fewer than 2 points and on an x
\* that is neither increasing nor decreasing
auc_raises(x, y) ==
    LET dx == np_diff(x)
    IN  \/ Len(x) < 2
        \/ /\ \E i \in DOMAIN dx : FNegative(dx[i])
           /\ ~(\A i \in DOMAIN dx : FNonPositive(dx[i]))

\* sklearn.metrics.auc(x, y): the trapezoidal rule, signed by the direction of x
auc(x, y) ==
    LET dx == np_diff(x)
        direction == IF \E i \in DOMAIN dx : FNegative(dx[i]) THEN -1 ELSE 1
    IN  FMul(FromInt(direction), np_trapz(y, x))

Max(S) == CHOOSE m \in S : \A e \in S : e <= m

RECURSIVE SortDescending(_)
SortDescending(S) ==
    IF S = {} THEN << >> ELSE <<Max(S)>> \o SortDescending(S \ {Max(S)})

\* sklearn.metrics.roc_curve(y_true, y_score): one point per distinct score
\* (descending), collinear points dropped, (0, 0) put in front
roc_curve(y_true, y_score) ==
    LET scores == SortDescending({y_score[i] : i \in DOMAIN y_score})
        tps == [j \in DOMAIN scores |->
                   Cardinality({i \in DOMAIN y_true :
                                   y_true[i] = 1 /\ y_score[i] >= scores[j]})]
        fps == [j \in DOMAIN scores |->
                   Cardinality({i \in DOMAIN y_true :
                                   y_true[i] # 1 /\ y_score[i] >= scores[j]})]
        n == Len(scores)
        \* drop_intermediate: keep the ends and the corners
        keep(j) == \/ n <= 2
                   \/ j = 1
                   \/ j = n
                   \/ fps[j + 1] - 2 * fps[j] + fps[j - 1] # 0
                   \/ tps[j + 1] - 2 * tps[j] + tps[j - 1] # 0
        optimal_idxs == SelectSeq([j \in 1..n |-> j], keep)
        tps0 == <<0>> \o [k \in DOMAIN optimal_idxs |-> tps[optimal_idxs[k]]]
        fps0 == <<0>> \o [k \in DOMAIN optimal_idxs |-> fps[optimal_idxs[k]]]
        thr == [k \in DOMAIN optimal_idxs |-> scores[optimal_idxs[k]]]
    IN  [fpr |-> [k \in DOMAIN fps0 |-> np_divide(fps0[k], fps0[Len(fps0)])],
         tpr |-> [k \in DOMAIN tps0 |-> np_divide(tps0[k], tps0[Len(tps0)])],
         thresholds |-> <<thr[1] + 1000>> \o thr]

\* ---------------------------------------------------------- StandardScaler
\* values a feature takes
FeatureValues == {0, 1, 2}

RECURSIVE SumSeq(_)
SumSeq(x) == IF x = << >> THEN 0 ELSE Head(x) + SumSeq(Tail(x))

\* X[index]: the rows of X at the positions of index, in increasing order
Take(X, index) ==
    [k \in 1..Cardinality(index) |->
        X[CHOOSE p \in index : Cardinality({q \in index : q < p}) = k - 1]]

\* sc.fit(X): the mean and the (population) variance of the column
StandardScaler_fit(X) ==
    LET n == Len(X)
        sum == SumSeq(X)
        sumsq == SumSeq([i \in DOMAIN X |-> X[i] * X[i]])
    IN  [mean_ |-> MkFloat(sum, n),
         var_ |-> MkFloat(n * sumsq - sum * sum, n * n)]

\* (x - mean_) / scale_ with scale_ = sqrt(var_), or 1 when var_ is 0; the
\* quotient is kept as its sign and its square
Standardised(x, sc) ==
    LET d == FSub(FromInt(x), sc.mean_)
        scale2 == IF sc.var_.num = 0 THEN FromInt(1) ELSE sc.var_
    IN  [sign |-> Sgn(d.num), square |-> FDiv(FMul(d, d), scale2)]

\* sc.transform(X)
StandardScaler_transform(sc, X) ==
    [i \in DOMAIN X |-> Standardised(X[i], sc)]

standardise_data(X_train, X_test) ==
    LET sc == StandardScaler_fit(X_train)
    IN  [train_std |-> StandardScaler_transform(sc, X_train),
         test_std |-> StandardScaler_transform(sc, X_test),
         sc |-> sc]

\* ------------------------------------------------------------------- state
VARIABLES
    pc,            \* position of the run
    observed,      \* calculate_accuracy's first argument
    predicted,     \* calculate_accuracy's second argument
    results,       \* the dictionary calculate_accuracy returned
    accuracy_test, \* a fold accuracy of the k-fold loops
    y_test,                \* observed classes of the test set
    probability_survival,  \* the model's survival probability of each test case
    thresholds,            \* the cut-offs of the running sweep, or roc_curve's
    cutoff_index,          \* position of the for loop in thresholds
    curve_fpr,             \* false positive rates of the manual ROC sweep
    curve_tpr,             \* true positive rates of the manual ROC sweep
    sensitivity,           \* sensitivities of the second sweep
    specificity,           \* specificities of the second sweep
    fpr,                   \* roc_curve's false positive rates
    tpr,                   \* roc_curve's true positive rates
    roc_auc,               \* the area last printed
    ROC_df,                \* the threshold / fpr / tpr table
    halted,                \* an uncaught exception ended the run
    X_runs,       \* the feature column of two runs that differ on test rows only
    train_index,  \* positions of the training rows of the split
    test_index,   \* positions of the test rows of the split
    sc,           \* the fitted scaler of each run
    X_std,        \* the one-off standardised X of each run (grid search)
    X_train_std,  \* the standardised training rows the model is fitted on
    X_test_std,   \* the standardised test rows the model is scored on
    data,         \* the DataFrame of the regularisation notebook: its passengers
    X,            \* the feature array: the passenger of each row, the column count
    y,            \* the label array: the passenger of each row
    reg_index,    \* position of "for reg in reg_values"
    fold_index,   \* position of "for train_index, test_index in skf.split(X, y)"
    X_train,      \* passengers of the rows the fold's model is fitted on
    X_test,       \* passengers of the rows the fold's model is scored on
    files,        \* the working directory: what each path holds
    notebook,     \* the notebook of the running (or last) kernel
    run,          \* number of notebook runs started in the working directory
    data_df,      \* the DataFrame "data" of the running notebook
    X_df,         \* the DataFrame "X" ("X_df") of the running notebook
    error,        \* the uncaught exception that ended the run, if any
    X_obtained,   \* the column lists each notebook has had in X so far
    model,              \* the fitted network: its output for X_test_sc
    y_probas_dropout,   \* the stack of passes with dropout
    y_proba_dropout,    \* the mean of the stack for each test passenger
    y_predict_dropout,  \* the classes from the mean
    y_proba,            \* model.predict(X_test_sc)
    y_predict,          \* the classes from y_proba
    accuracy,           \* accuracy without dropout
    accuracy_dropout,   \* accuracy with dropout
    poly,                        \* the fitted PolynomialFeatures: its terms
    X_poly_df,                   \* the expanded table: its column names
    accuracy_by_feature_number,  \* best accuracy of each selection round
    chosen_features,             \* names of the features selected so far
    available_features,          \* names of the features not yet selected
    feature_run,                 \* "run": the selection rounds started
    signal                       \* how the data rewards a set of features

regVars == <<data, X, y, reg_index, fold_index, X_train, X_test>>

stdVars == <<X_runs, train_index, test_index, sc, X_std, X_train_std, X_test_std>>

accVars == <<observed, predicted, accuracy_test>>

rocVars == <<y_test, probability_survival, thresholds, cutoff_index,
             curve_fpr, curve_tpr, sensitivity, specificity, fpr, tpr,
             roc_auc, ROC_df, halted>>

fsVars == <<files, notebook, run, data_df, X_df, error, X_obtained>>

mcdVars == <<model, y_probas_dropout, y_proba_dropout, y_predict_dropout,
             y_proba, y_predict, accuracy, accuracy_dropout>>

fxVars == <<poly, X_poly_df, accuracy_by_feature_number, chosen_features,
            available_features, feature_run, signal>>

nbVars == <<fsVars, mcdVars, fxVars>>

vars == <<pc, results, accVars, rocVars, stdVars, regVars, nbVars>>

NoResults == [none |-> TRUE]

BinaryVectors(n) == [1..n -> {0, 1}]

\* calculate_accuracy has no arguments yet
AccIdle ==
    /\ observed = << >>
    /\ predicted = << >>
    /\ accuracy_test = NaN

\* the ROC notebook has not started
RocIdle ==
    /\ y_test = << >>
    /\ probability_survival = << >>
    /\ thresholds = << >>
    /\ cutoff_index = 0
    /\ curve_fpr = << >>
    /\ curve_tpr = << >>
    /\ sensitivity = << >>
    /\ specificity = << >>
    /\ fpr = << >>
    /\ tpr = << >>
    /\ roc_auc = NaN
    /\ ROC_df = NoResults
    /\ halted = FALSE

\* the regularisation notebook has not started
RegIdle ==
    /\ data = << >>
    /\ X = NoResults
    /\ y = << >>
    /\ reg_index = 0
    /\ fold_index = 0
    /\ X_train = << >>
    /\ X_test = << >>

\* the standardisation runs have not started
StdIdle ==
    /\ X_runs = << >>
    /\ train_index = {}
    /\ test_index = {}
    /\ sc = << >>
    /\ X_std = << >>
    /\ X_train_std = << >>
    /\ X_test_std = << >>

\* the notebooks: part_000, part_001, the two notebooks of
\* 06_roc_sensitivity_specificity.ipynb, 10_feature_expansion.ipynb and
\* 22_check_calibration.ipynb
Notebooks == {"grid_search", "regularisation", "roc", "mc_dropout",
              "feature_expansion", "check_calibration"}

\* data_directory + 'processed_data.csv'
processed_data_csv == "data/processed_data.csv"

\* data_directory ='./data/'
data_directory == "data"

\* the file keras.utils.plot_model writes
titanic_tf_model_png == "titanic_tf_model.png"

Paths == {data_directory, processed_data_csv, titanic_tf_model_png}

\* a path nothing is stored at
NoFile == [exists |-> FALSE]

\* a DataFrame name that is not bound in the kernel
NoFrame == [unbound |-> TRUE]

\* no notebook has been run in the working directory
FsIdle ==
    /\ files = [p \in Paths |-> NoFile]
    /\ notebook = "none"
    /\ run = 0
    /\ data_df = NoFrame
    /\ X_df = NoFrame
    /\ error = "none"
    /\ X_obtained = [nb \in Notebooks |-> {}]

\* the Monte Carlo Dropout notebook has not trained its network
McdIdle ==
    /\ model = NoResults
    /\ y_probas_dropout = << >>
    /\ y_proba_dropout = << >>
    /\ y_predict_dropout = << >>
    /\ y_proba = << >>
    /\ y_predict = << >>
    /\ accuracy = NaN
    /\ accuracy_dropout = NaN

\* the feature expansion notebook has not expanded X
FxIdle ==
    /\ poly = << >>
    /\ X_poly_df = NoFrame
    /\ accuracy_by_feature_number = << >>
    /\ chosen_features = << >>
    /\ available_features = << >>
    /\ feature_run = 0
    /\ signal = NoResults

NbIdle == FsIdle /\ McdIdle /\ FxIdle

\* ----------------------------------------- calculate_accuracy on its own
AccInit ==
    /\ pc = "metrics"
    /\ \E n \in 1..MaxLen :
          /\ observed \in BinaryVectors(n)
          /\ predicted \in BinaryVectors(n)
    /\ results = NoResults
    /\ accuracy_test = NaN
    /\ RocIdle
    /\ StdIdle
    /\ RegIdle
    /\ NbIdle

\* accuracy = calculate_accuracy(observed, predicted); an exception leaves
\* accuracy unassigned
CallCalculateAccuracy ==
    /\ pc = "metrics"
    /\ results = NoResults
    /\ ~calculate_accuracy_raises(observed, predicted)
    /\ results' = calculate_accuracy(observed, predicted)
    /\ UNCHANGED <<nbVars, pc, accVars, rocVars, stdVars, regVars>>

\* accuracy_test = np.mean(y_pred_test == y_test) of the k-fold loops
FoldAccuracy ==
    /\ pc = "metrics"
    /\ IsNaN(accuracy_test)
    /\ accuracy_test' = np_mean(EqVec(predicted, observed))
    /\ UNCHANGED <<nbVars, pc, observed, predicted, results, rocVars, stdVars, regVars>>

AccNext == CallCalculateAccuracy \/ FoldAccuracy

SpecAcc == AccInit /\ [][AccNext]_vars

\* ------------------------------ 06_roc_sensitivity_specificity.ipynb
\* the state after the model is fitted on the training set
RocInit ==
    /\ pc = "roc_setup"
    /\ y_test \in BinaryVectors(NumCases)
    /\ probability_survival \in [1..NumCases -> ProbValues]
    /\ results = NoResults
    /\ AccIdle
    /\ thresholds = << >>
    /\ cutoff_index = 0
    /\ curve_fpr = << >>
    /\ curve_tpr = << >>
    /\ sensitivity = << >>
    /\ specificity = << >>
    /\ fpr = << >>
    /\ tpr = << >>
    /\ roc_auc = NaN
    /\ ROC_df = NoResults
    /\ halted = FALSE
    /\ StdIdle
    /\ RegIdle
    /\ NbIdle

\* an uncaught exception: the cell stops where it is and the run ends
Halt ==
    /\ halted' = TRUE
    /\ pc' = "halted"

\* curve_fpr = []; curve_tpr = []; thresholds = np.arange(0, 1.01, 0.01)
RocSweepSetup ==
    /\ pc = "roc_setup"
    /\ curve_fpr' = << >>
    /\ curve_tpr' = << >>
    /\ thresholds' = arange(0, 1010, 10)
    /\ cutoff_index' = 1
    /\ pc' = "roc_sweep"
    /\ UNCHANGED <<nbVars, results, accVars, stdVars, regVars, y_test, probability_survival, sensitivity,
                   specificity, fpr, tpr, roc_auc, ROC_df, halted>>

\* one pass of "for cutoff in thresholds" of the ROC sweep
RocSweepStep ==
    /\ pc = "roc_sweep"
    /\ cutoff_index <= Len(thresholds)
    /\ LET cutoff == thresholds[cutoff_index]
           predicted_survived == classify(probability_survival, cutoff)
       IN  IF calculate_accuracy_raises(y_test, predicted_survived)
           THEN /\ Halt
                /\ UNCHANGED <<results, curve_fpr, curve_tpr, cutoff_index>>
           ELSE /\ results' = calculate_accuracy(y_test, predicted_survived)
                /\ curve_fpr' = Append(curve_fpr, results'.false_positive_rate)
                /\ curve_tpr' = Append(curve_tpr, results'.true_positive_rate)
                /\ cutoff_index' = cutoff_index + 1
                /\ pc' = IF cutoff_index = Len(thresholds)
                         THEN "auc" ELSE "roc_sweep"
                /\ UNCHANGED halted
    /\ UNCHANGED <<nbVars, accVars, stdVars, regVars, y_test, probability_survival, thresholds,
                   sensitivity, specificity, fpr, tpr, roc_auc, ROC_df>>

\* roc_auc = auc(curve_fpr, curve_tpr)
FirstAuc ==
    /\ pc = "auc"
    /\ IF auc_raises(curve_fpr, curve_tpr)
       THEN Halt /\ UNCHANGED roc_auc
       ELSE /\ roc_auc' = auc(curve_fpr, curve_tpr)
            /\ pc' = "roc_df"
            /\ UNCHANGED halted
    /\ UNCHANGED <<nbVars, results, accVars, stdVars, regVars, y_test, probability_survival, thresholds,
                   cutoff_index, curve_fpr, curve_tpr, sensitivity,
                   specificity, fpr, tpr, ROC_df>>

\* ROC_df = pd.DataFrame(); the three column assignments (a column whose
\* length differs from the first one's raises ValueError)
BuildRocDf ==
    /\ pc = "roc_df"
    /\ IF Len(curve_fpr) # Len(thresholds) \/ Len(curve_tpr) # Len(thresholds)
       THEN Halt /\ UNCHANGED ROC_df
       ELSE /\ ROC_df' = [threshold |-> thresholds,
                          fpr |-> curve_fpr,
                          tpr |-> curve_tpr]
            /\ pc' = "roc_curve"
            /\ UNCHANGED halted
    /\ UNCHANGED <<nbVars, results, accVars, stdVars, regVars, y_test, probability_survival, thresholds,
                   cutoff_index, curve_fpr, curve_tpr, sensitivity,
                   specificity, fpr, tpr, roc_auc>>

\* fpr, tpr, thresholds = roc_curve(y_test, probabilities)
SklearnRocCurve ==
    /\ pc = "roc_curve"
    /\ LET r == roc_curve(y_test, probability_survival)
       IN  /\ fpr' = r.fpr
           /\ tpr' = r.tpr
           /\ thresholds' = r.thresholds
    /\ pc' = "auc_again"
    /\ UNCHANGED <<nbVars, results, accVars, stdVars, regVars, y_test, probability_survival,
                   cutoff_index, curve_fpr, curve_tpr, sensitivity,
                   specificity, roc_auc, ROC_df, halted>>

\* "And again ...": roc_auc = auc(curve_fpr, curve_tpr)
SecondAuc ==
    /\ pc = "auc_again"
    /\ IF auc_raises(curve_fpr, curve_tpr)
       THEN Halt /\ UNCHANGED roc_auc
       ELSE /\ roc_auc' = auc(curve_fpr, curve_tpr)
            /\ pc' = "sens_setup"
            /\ UNCHANGED halted
    /\ UNCHANGED <<nbVars, results, accVars, stdVars, regVars, y_test, probability_survival, thresholds,
                   cutoff_index, curve_fpr, curve_tpr, sensitivity,
                   specificity, fpr, tpr, ROC_df>>

\* sensitivity = []; specificity = []; thresholds = np.arange(0, 1.01, 0.01)
SensSweepSetup ==
    /\ pc = "sens_setup"
    /\ sensitivity' = << >>
    /\ specificity' = << >>
    /\ thresholds' = arange(0, 1010, 10)
    /\ cutoff_index' = 1
    /\ pc' = "sens_sweep"
    /\ UNCHANGED <<nbVars, results, accVars, stdVars, regVars, y_test, probability_survival, curve_fpr,
                   curve_tpr, fpr, tpr, roc_auc, ROC_df, halted>>

\* one pass of "for cutoff in thresholds" of the sensitivity-specificity sweep
SensSweepStep ==
    /\ pc = "sens_sweep"
    /\ cutoff_index <= Len(thresholds)
    /\ LET cutoff == thresholds[cutoff_index]
           predicted_survived == classify(probability_survival, cutoff)
       IN  IF calculate_accuracy_raises(y_test, predicted_survived)
           THEN /\ Halt
                /\ UNCHANGED <<results, sensitivity, specificity, cutoff_index>>
           ELSE /\ results' = calculate_accuracy(y_test, predicted_survived)
                /\ sensitivity' = Append(sensitivity, results'.sensitivity)
                /\ specificity' = Append(specificity, results'.specificity)
                /\ cutoff_index' = cutoff_index + 1
                /\ pc' = IF cutoff_index = Len(thresholds)
                         THEN "done" ELSE "sens_sweep"
                /\ UNCHANGED halted
    /\ UNCHANGED <<nbVars, accVars, stdVars, regVars, y_test, probability_survival, thresholds,
                   curve_fpr, curve_tpr, fpr, tpr, roc_auc, ROC_df>>

RocNext ==
    \/ RocSweepSetup
    \/ RocSweepStep
    \/ FirstAuc
    \/ BuildRocDf
    \/ SklearnRocCurve
    \/ SecondAuc
    \/ SensSweepSetup
    \/ SensSweepStep

SpecROC == RocInit /\ [][RocNext]_vars

\* ------------------------------------------------- the confusion matrix,
\* counted case by case
TP == Cardinality({i \in DOMAIN observed : observed[i] = 1 /\ predicted[i] = 1})

FP == Cardinality({i \in DOMAIN observed : observed[i] = 0 /\ predicted[i] = 1})

TN == Cardinality({i \in DOMAIN observed : observed[i] = 0 /\ predicted[i] = 0})

FN == Cardinality({i \in DOMAIN observed : observed[i] = 1 /\ predicted[i] = 0})

Called == pc = "metrics" /\ results # NoResults

\* the harmonic mean of a and b: 2 / (1/a + 1/b)
HarmonicMean(a, b) == FDiv(FromInt(2), FAdd(FInv(a), FInv(b)))

\* C1: whenever at least one case is predicted positive, the
\* positive_predictive_value calculate_accuracy returns is the share of the
\* predicted positives that are true positives, TP / (TP + FP).
C1_PositivePredictiveValue ==
    (Called /\ TP + FP > 0) =>
        results.positive_predictive_value = MkFloat(TP, TP + FP)

\* C2: whenever at least one case is predicted negative, the
\* negative_predictive_value calculate_accuracy returns is the share of the
\* predicted negatives that are true negatives, TN / (TN + FN).
C2_NegativePredictiveValue ==
    (Called /\ TN + FN > 0) =>
        results.negative_predictive_value = MkFloat(TN, TN + FN)

\* C4: with at least one observed positive and one observed negative,
\* false_positive_rate is FP / observed negatives and false_negative_rate is
\* FN / observed positives.
C4_FalseRates ==
    (Called /\ TP + FN > 0 /\ TN + FP > 0) =>
        /\ results.false_positive_rate = MkFloat(FP, TN + FP)
        /\ results.false_negative_rate = MkFloat(FN, TP + FN)

C4_Witness ==
    /\ Called
    /\ FP > 0 /\ FN > 0 /\ TP > 0 /\ TN > 0
    /\ results.false_positive_rate = MkFloat(FP, TN + FP)
    /\ results.false_positive_rate # results.false_negative_rate

\* C5: with every denominator non-zero (a predicted positive, an observed
\* positive, an observed negative, and precision + recall > 0), precision is
\* TP/(TP+FP), recall = sensitivity = true_positive_rate is TP/(TP+FN),
\* specificity = true_negative_rate is TN/(TN+FP), and f1 is the harmonic
\* mean of precision and recall.
C5_PrecisionRecallF1 ==
    (Called /\ TP > 0 /\ TN + FP > 0) =>
        /\ results.precision = MkFloat(TP, TP + FP)
        /\ results.recall = MkFloat(TP, TP + FN)
        /\ results.sensitivity = results.recall
        /\ results.true_positive_rate = results.recall
        /\ results.specificity = MkFloat(TN, TN + FP)
        /\ results.true_negative_rate = results.specificity
        /\ results.f1 = HarmonicMean(MkFloat(TP, TP + FP), MkFloat(TP, TP + FN))

C5_Witness ==
    /\ Called
    /\ TP > 0 /\ FP > 0 /\ FN > 0 /\ TN > 0
    /\ TP + FP # TP + FN
    /\ IsFinite(results.f1)
    /\ results.f1 = MkFloat(2 * TP, 2 * TP + FP + FN)

Matches == Cardinality({i \in DOMAIN observed : observed[i] = predicted[i]})

InUnitInterval(a) ==
    IsFinite(a) /\ FLeq(FromInt(0), a) /\ FLeq(a, FromInt(1))

\* C6: for non-empty equal-length vectors, the accuracy of calculate_accuracy
\* and the fold accuracy np.mean(predicted == observed) are the number of
\* matching positions divided by the number of cases, and lie in [0,1].
C6_Accuracy ==
    /\ Called =>
          /\ results.accuracy = MkFloat(Matches, Len(observed))
          /\ InUnitInterval(results.accuracy)
    /\ (pc = "metrics" /\ ~IsNaN(accuracy_test)) =>
          /\ accuracy_test = MkFloat(Matches, Len(observed))
          /\ InUnitInterval(accuracy_test)

C6_Witness ==
    /\ Called
    /\ ~IsNaN(accuracy_test)
    /\ Matches > 0 /\ Matches < Len(observed)
    /\ results.accuracy = accuracy_test
    /\ results.accuracy = MkFloat(Matches, Len(observed))

\* ------------------------------------------------ the sweeps, case by case
\* the j-th cut-off of a sweep, in thousandths: 0.01 * (j - 1)
CutoffAt(j) == 10 * (j - 1)

\* the test cases classified as survivors at the j-th cut-off
SurvivorsAt(j) ==
    {i \in DOMAIN y_test : probability_survival[i] >= CutoffAt(j)}

ObservedPositives == {i \in DOMAIN y_test : y_test[i] = 1}

ObservedNegatives == {i \in DOMAIN y_test : y_test[i] = 0}

TruePositiveRateAt(j) ==
    MkFloat(Cardinality(SurvivorsAt(j) \cap ObservedPositives),
            Cardinality(ObservedPositives))

FalsePositiveRateAt(j) ==
    MkFloat(Cardinality(SurvivorsAt(j) \cap ObservedNegatives),
            Cardinality(ObservedNegatives))

SpecificityAt(j) ==
    MkFloat(Cardinality(ObservedNegatives \ SurvivorsAt(j)),
            Cardinality(ObservedNegatives))

\* a denominator of calculate_accuracy is zero at the j-th cut-off
DegenerateAt(j) ==
    \/ ObservedPositives = {}
    \/ ObservedNegatives = {}
    \/ SurvivorsAt(j) = {}

InSweep == pc \in {"roc_sweep", "sens_sweep"}

AfterRocSweep ==
    pc \in {"auc", "roc_df", "roc_curve", "auc_again", "sens_setup",
            "sens_sweep", "done"}

AfterSecondAuc == pc \in {"sens_setup", "sens_sweep", "done"}

\* C3 as stated: a zero denominator (no observed positives, no observed
\* negatives or no predicted positives) raises, so no cut-off with a zero
\* denominator is ever passed and no point is appended for one.
C3_ZeroDenominatorHalts ==
    /\ InSweep => \A j \in 1..(cutoff_index - 1) : ~DegenerateAt(j)
    /\ \A j \in DOMAIN curve_fpr : ~DegenerateAt(j)
    /\ \A j \in DOMAIN sensitivity : ~DegenerateAt(j)

\* C3 amended: a zero denominator raises nothing.  The call returns its
\* dictionary with the affected metrics nan, and each sweep appends a point
\* for every one of the 101 cut-offs.
C3_ZeroDenominatorGivesNaN ==
    /\ ~halted /\ pc # "halted"
    /\ (cutoff_index > 1 /\ pc \in {"roc_sweep", "sens_sweep", "auc", "done"}) =>
          LET j == cutoff_index - 1
          IN  /\ results # NoResults
              /\ SurvivorsAt(j) = {} => IsNaN(results.precision)
              /\ ObservedPositives = {} =>
                    IsNaN(results.recall) /\ IsNaN(results.true_positive_rate)
              /\ ObservedNegatives = {} =>
                    IsNaN(results.specificity) /\ IsNaN(results.false_positive_rate)
              /\ ~DegenerateAt(j) =>
                    IsFinite(results.precision) /\ IsFinite(results.recall)
                       /\ IsFinite(results.specificity)
              /\ pc \in {"roc_sweep", "auc"} =>
                    Len(curve_fpr) = j /\ Len(curve_tpr) = j
              /\ pc \in {"sens_sweep", "done"} =>
                    Len(sensitivity) = j /\ Len(specificity) = j
    /\ AfterRocSweep => Len(curve_fpr) = 101 /\ Len(curve_tpr) = 101
    /\ pc = "done" => Len(sensitivity) = 101 /\ Len(specificity) = 101

C3_Witness ==
    /\ pc = "done"
    /\ ObservedPositives # {} /\ ObservedNegatives # {}
    /\ SurvivorsAt(101) = {}
    /\ ~DegenerateAt(1)
    /\ IsNaN(results.precision)
    /\ IsNaN(results.f1)
    /\ Len(curve_fpr) = 101
    /\ Len(sensitivity) = 101

C8_SecondAucOfSklearnCurve ==
    AfterSecondAuc => roc_auc = auc(fpr, tpr)

\* ------------------------------------------ standardisation before a fit
\* two runs whose data agree on the training rows of the split
StdInit ==
    /\ pc \in {"kfold_split", "grid_scale"}
    /\ test_index \in {t \in SUBSET (1..NumRows) : t # {} /\ t # 1..NumRows}
    /\ train_index = (1..NumRows) \ test_index
    /\ \E a \in [1..NumRows -> FeatureValues], b \in [1..NumRows -> FeatureValues] :
          /\ \A i \in train_index : a[i] = b[i]
          /\ X_runs = <<a, b>>
    /\ sc = << >>
    /\ X_std = << >>
    /\ X_train_std = << >>
    /\ X_test_std = << >>
    /\ results = NoResults
    /\ AccIdle
    /\ RocIdle
    /\ RegIdle
    /\ NbIdle

\* k-fold loop body: X_train, X_test = X[train_index], X[test_index];
\* X_train_std, X_test_std = standardise_data(X_train, X_test)
StandardiseFold ==
    /\ pc = "kfold_split"
    /\ LET r == [k \in 1..2 |->
                    standardise_data(Take(X_runs[k], train_index),
                                     Take(X_runs[k], test_index))]
       IN  /\ sc' = [k \in 1..2 |-> r[k].sc]
           /\ X_train_std' = [k \in 1..2 |-> r[k].train_std]
           /\ X_test_std' = [k \in 1..2 |-> r[k].test_std]
    /\ pc' = "fold_fitted"
    /\ UNCHANGED <<nbVars, results, accVars, rocVars, regVars, X_runs, train_index, test_index, X_std>>

\* grid / random search notebook: sc.fit(X); X_std = sc.transform(X)
GridStandardise ==
    /\ pc = "grid_scale"
    /\ sc' = [k \in 1..2 |-> StandardScaler_fit(X_runs[k])]
    /\ X_std' = [k \in 1..2 |-> StandardScaler_transform(sc'[k], X_runs[k])]
    /\ pc' = "grid_search"
    /\ UNCHANGED <<nbVars, results, accVars, rocVars, regVars, X_runs, train_index, test_index,
                   X_train_std, X_test_std>>

\* grid_search.fit(X_std, y) with cv=5: a fold fits on X_std[train_index]
\* and scores on X_std[test_index]
GridSearchFold ==
    /\ pc = "grid_search"
    /\ X_train_std' = [k \in 1..2 |-> Take(X_std[k], train_index)]
    /\ X_test_std' = [k \in 1..2 |-> Take(X_std[k], test_index)]
    /\ pc' = "grid_fitted"
    /\ UNCHANGED <<nbVars, results, accVars, rocVars, regVars, X_runs, train_index, test_index,
                   sc, X_std>>

StdNext == StandardiseFold \/ GridStandardise \/ GridSearchFold

SpecStd == StdInit /\ [][StdNext]_vars

\* C9: the rows a model is later tested on never influence the scaler: two
\* runs that differ on test rows only fit the same mean and variance and
\* hand the same standardised training rows to the model, in the k-fold
\* notebooks (standardise_data) and before grid and random search.
C9_ScalerIgnoresTestRows ==
    /\ pc \in {"fold_fitted", "grid_search", "grid_fitted"} => sc[1] = sc[2]
    /\ pc \in {"fold_fitted", "grid_fitted"} => X_train_std[1] = X_train_std[2]

\* ------------------------------------- unnamed/part_001 (regularisation)
\* the state after data is loaded and PassengerId dropped: one row per
\* passenger
RegInit ==
    /\ pc = "reg_extract"
    /\ data = [i \in 1..NumPassengers |-> i]
    /\ X = NoResults
    /\ y = << >>
    /\ reg_index = 0
    /\ fold_index = 0
    /\ X_train = << >>
    /\ X_test = << >>
    /\ results = NoResults
    /\ AccIdle
    /\ RocIdle
    /\ StdIdle
    /\ NbIdle

\* X = X_df.values; y = y_df.values
ExtractXy ==
    /\ pc = "reg_extract"
    /\ X' = [rows |-> data, n_features |-> NumFeatures]
    /\ y' = data
    /\ pc' = "reg_sample"
    /\ UNCHANGED <<nbVars, results, accVars, rocVars, stdVars, data, reg_index,
                   fold_index, X_train, X_test>>

\* data = data.sample(150): 150 of the rows (a run of consecutive rows stands
\* for the random draw); ValueError when data has fewer rows
SampleData ==
    /\ pc = "reg_sample"
    /\ IF SampleSize > Len(data)
       THEN /\ halted' = TRUE
            /\ pc' = "halted"
            /\ UNCHANGED data
       ELSE /\ \E offset \in 0..(Len(data) - SampleSize) :
                  data' = SubSeq(data, offset + 1, offset + SampleSize)
            /\ pc' = "reg_poly"
            /\ UNCHANGED halted
    /\ UNCHANGED <<nbVars, results, accVars, y_test, probability_survival, thresholds,
                   cutoff_index, curve_fpr, curve_tpr, sensitivity, specificity,
                   fpr, tpr, roc_auc, ROC_df, stdVars, X, y, reg_index,
                   fold_index, X_train, X_test>>

\* X = PolynomialFeatures(2).fit_transform(X): the same rows, with a bias
\* column, the features, and the products of every two features
AddPolynomialFeatures ==
    /\ pc = "reg_poly"
    /\ X' = [X EXCEPT !.n_features =
                ((X.n_features + 1) * (X.n_features + 2)) \div 2]
    /\ reg_index' = 1
    /\ fold_index' = 1
    /\ pc' = "reg_kfold"
    /\ UNCHANGED <<nbVars, results, accVars, rocVars, stdVars, data, y, X_train, X_test>>

\* positions of the test rows of fold f of n (the folds partition the rows;
\* the balancing of classes between folds is left out)
FoldTestIndex(n, f) == {p \in 1..n : (p - 1) % n_splits = f - 1}

\* one pass of the inner loop: X_train, X_test = X[train_index], X[test_index]
\* and the fit and scoring on them
KFoldStep ==
    /\ pc = "reg_kfold"
    /\ reg_index <= NumRegValues
    /\ LET test == FoldTestIndex(Len(X.rows), fold_index)
           train == (1..Len(X.rows)) \ test
       IN  /\ X_train' = Take(X.rows, train)
           /\ X_test' = Take(X.rows, test)
    /\ IF fold_index < n_splits
       THEN fold_index' = fold_index + 1 /\ UNCHANGED <<reg_index, pc>>
       ELSE /\ fold_index' = 1
            /\ reg_index' = reg_index + 1
            /\ pc' = IF reg_index = NumRegValues THEN "reg_done" ELSE "reg_kfold"
    /\ UNCHANGED <<nbVars, results, accVars, rocVars, stdVars, data, X, y>>

RegNext == ExtractXy \/ SampleData \/ AddPolynomialFeatures \/ KFoldStep

SpecReg == RegInit /\ [][RegNext]_vars

Range(f) == {f[i] : i \in DOMAIN f}

\* C10: the X and y that are split, fitted and scored in the k-fold loop hold
\* exactly the 150 sampled passengers.
C10_ModelledOnSample ==
    pc \in {"reg_kfold", "reg_done"} =>
        /\ Len(X.rows) = 150
        /\ Len(y) = 150
        /\ Range(X.rows) = Range(data)
        /\ Range(y) = Range(data)
        /\ Range(X_train) \cup Range(X_test) \subseteq Range(data)

\* ------------------------------------ the download, load and split cells
\* the table at the download address: the passenger index, the label and
\* the features (three of the columns and two of the rows stand for all)
RemoteTable ==
    [columns |-> <<"PassengerId", "Survived", "Pclass", "Age", "male">>,
     values |-> << <<1, 0, 3, 22, 1>>, <<2, 1, 1, 38, 0>> >>]

\* mutant: no notebook downloads
download_required_never(nb) == FALSE

\* download_required of the notebook's download cell
download_required(nb) == nb # "check_calibration"

\* DataFrame.to_csv writes the row index unless index=False is passed
to_csv_index(nb) == nb \in {"grid_search", "check_calibration"}

\* mutant: every notebook draws the model
plots_model_all(nb) == TRUE

\* keras.utils.plot_model is called in the Monte Carlo Dropout notebook only

plots_model(nb) == nb = "mc_dropout"

\* DataFrame.to_csv: a header line and one line per row; with the index, a
\* first field that is empty in the header and the row label in each line
to_csv(df, index) ==
    [header |-> IF index THEN <<"">> \o df.columns ELSE df.columns,
     lines |-> [i \in 1..Len(df.values) |->
                   IF index THEN <<i - 1>> \o df.values[i] ELSE df.values[i]]]

\* pd.read_csv: every field of the header is a column, a field without a
\* name is called "Unnamed: <position>"
read_csv(file) ==
    [columns |-> [k \in 1..Len(file.header) |->
                     IF file.header[k] = ""
                     THEN "Unnamed: " \o ToString(k - 1)
                     ELSE file.header[k]],
     values |-> file.lines]

\* positions of the columns of df other than label
Kept(df, label) == {k \in 1..Len(df.columns) : df.columns[k] # label}

\* the members of positions in ascending order
Ascending(positions) ==
    [k \in 1..Cardinality(positions) |->
        CHOOSE p \in positions : Cardinality({q \in positions : q < p}) = k - 1]

\* DataFrame.drop(label, axis=1)
drop(df, label) ==
    LET keep == Ascending(Kept(df, label))
    IN  [columns |-> [k \in 1..Len(keep) |-> df.columns[keep[k]]],
         values |-> [i \in 1..Len(df.values) |->
                        [k \in 1..Len(keep) |-> df.values[i][keep[k]]]]]

\* drop raises KeyError when no column has the label
drop_raises(df, label) == \A k \in 1..Len(df.columns) : df.columns[k] # label

\* a stored file, stamped with the run that wrote it
Stored(content, r) == [exists |-> TRUE, content |-> content, mtime |-> r]

\* a kernel is started and "Run all" begins
StartRun ==
    /\ pc = "idle"
    /\ run < MaxRuns
    /\ \E nb \in Notebooks : notebook' = nb
    /\ run' = run + 1
    /\ data_df' = NoFrame
    /\ X_df' = NoFrame
    /\ error' = "none"
    /\ pc' = "download"
    /\ UNCHANGED <<results, accVars, rocVars, stdVars, regVars, mcdVars, fxVars, files, X_obtained>>

\* the download cell: read the address, make ./data/ if absent, save
DownloadCell ==
    /\ pc = "download"
    /\ IF download_required(notebook)
       THEN /\ data_df' = RemoteTable
            /\ files' = [files EXCEPT
                  ![data_directory] =
                      IF files[data_directory].exists
                      THEN files[data_directory]
                      ELSE Stored("directory", run),
                  ![processed_data_csv] =
                      Stored(to_csv(RemoteTable, to_csv_index(notebook)), run)]
       ELSE UNCHANGED <<data_df, files>>
    /\ pc' = "load"
    /\ UNCHANGED <<results, accVars, rocVars, stdVars, regVars, mcdVars, fxVars, notebook, run, X_df, error,
                   X_obtained>>

\* data = pd.read_csv('data/processed_data.csv'); FileNotFoundError ends the
\* run when the file is not there
LoadCell ==
    /\ pc = "load"
    /\ IF files[processed_data_csv].exists
       THEN /\ data_df' = read_csv(files[processed_data_csv].content)
            /\ pc' = "drop"
            /\ UNCHANGED error
       ELSE /\ error' = "FileNotFoundError"
            /\ pc' = "idle"
            /\ UNCHANGED data_df
    /\ UNCHANGED <<results, accVars, rocVars, stdVars, regVars, mcdVars, fxVars, files, notebook, run, X_df,
                   X_obtained>>

\* data.drop('PassengerId', inplace=True, axis=1)
DropPassengerId ==
    /\ pc = "drop"
    /\ IF drop_raises(data_df, "PassengerId")
       THEN /\ error' = "KeyError"
            /\ pc' = "idle"
            /\ UNCHANGED data_df
       ELSE /\ data_df' = drop(data_df, "PassengerId")
            /\ pc' = "split"
            /\ UNCHANGED error
    /\ UNCHANGED <<results, accVars, rocVars, stdVars, regVars, mcdVars, fxVars, files, notebook, run, X_df,
                   X_obtained>>

\* X = data.drop('Survived',axis=1)
SplitXy ==
    /\ pc = "split"
    /\ X_df' = drop(data_df, "Survived")
    /\ X_obtained' = [X_obtained EXCEPT
                         ![notebook] = @ \cup {X_df'.columns}]
    /\ pc' = IF plots_model(notebook) THEN "plot_model" ELSE "idle"
    /\ UNCHANGED <<results, accVars, rocVars, stdVars, regVars, mcdVars, fxVars, files, notebook, run, data_df,
                   error>>

\* keras.utils.plot_model(model, "titanic_tf_model.png", show_shapes=True):
\* the picture is written, or only a message is printed when pydot and
\* graphviz are not installed
PlotModel ==
    /\ pc = "plot_model"
    /\ \/ files' = [files EXCEPT ![titanic_tf_model_png] = Stored("picture", run)]
       \/ UNCHANGED files
    /\ pc' = "idle"
    /\ UNCHANGED <<results, accVars, rocVars, stdVars, regVars, mcdVars, fxVars, notebook, run, data_df, X_df,
                   error, X_obtained>>

\* an empty working directory
FilesInit ==
    /\ pc = "idle"
    /\ results = NoResults
    /\ AccIdle
    /\ RocIdle
    /\ StdIdle
    /\ RegIdle
    /\ FsIdle
    /\ McdIdle
    /\ FxIdle

FilesNext ==
    \/ StartRun
    \/ DownloadCell
    \/ LoadCell
    \/ DropPassengerId
    \/ SplitXy
    \/ PlotModel

SpecFiles == FilesInit /\ [][FilesNext]_vars

\* the columns of the downloaded table that are features
OriginalFeatures == Range(drop(drop(RemoteTable, "PassengerId"), "Survived").columns)

\* C11: in a notebook that saves and loads the table in the same run, the
\* table read back has exactly the columns of the downloaded table, and X
\* then holds original features only (no row-index column)
C11_RoundTripAddsNoColumn ==
    /\ (pc = "drop" /\ download_required(notebook))
          => data_df.columns = RemoteTable.columns
    /\ (X_df # NoFrame /\ download_required(notebook))
          => Range(X_df.columns) \subseteq OriginalFeatures

\* the running (or last) notebook has read data/processed_data.csv
ReadDone == pc \in {"drop", "split", "plot_model"} \/ X_df # NoFrame

\* the file the read returned was written by the run that read it
ReadFresh ==
    /\ files[data_directory].exists
    /\ files[processed_data_csv].exists
    /\ files[processed_data_csv].mtime = run

\* C12 (as claimed): in every notebook run the read of
\* data/processed_data.csv comes after a download and a write of the same
\* run: it never fails for a missing file and never returns an earlier
\* run's file
C12_ReadPrecededByDownload ==
    /\ error # "FileNotFoundError"
    /\ ReadDone => ReadFresh

\* C12 (amended): that holds in every notebook but the calibration notebook,
\* whose download cell is switched off: its read returns the file an earlier
\* run left, and fails with FileNotFoundError exactly when there is none
C12_ReadFreshWhereDownloadRequired ==
    /\ notebook \in Notebooks \ {"check_calibration"} =>
          /\ error # "FileNotFoundError"
          /\ ReadDone => ReadFresh
    /\ notebook = "check_calibration" =>
          /\ ReadDone => /\ files[processed_data_csv].exists
                         /\ files[processed_data_csv].mtime < run
          /\ error = "FileNotFoundError" <=>
                (pc = "idle" /\ ~files[processed_data_csv].exists)

\* a downloading notebook has read the file it wrote, and the calibration
\* notebook has read a file of an earlier run
C12_Witness ==
    /\ notebook = "check_calibration"
    /\ ReadDone
    /\ files[processed_data_csv].mtime < run
    /\ X_obtained["roc"] # {}

\* C13 (as claimed): no run leaves a file other than
\* data/processed_data.csv and its data folder
C13_OnlyProcessedDataWritten ==
    \A p \in Paths :
        files[p].exists => p \in {data_directory, processed_data_csv}

\* C13 (amended): a step of a run changes no path other than
\* data/processed_data.csv and its data folder, except that the Monte
\* Carlo Dropout notebook also writes titanic_tf_model.png
C13_FilesWritten ==
    [][\A p \in Paths :
          files'[p] # files[p] =>
              \/ p \in {data_directory, processed_data_csv}
              \/ p = titanic_tf_model_png /\ notebook = "mc_dropout"]_vars

\* the Monte Carlo Dropout notebook has written the picture next to the data
C13_Witness ==
    /\ notebook = "mc_dropout"
    /\ files[titanic_tf_model_png].exists
    /\ files[titanic_tf_model_png].mtime = run
    /\ files[processed_data_csv].exists

\* C19: whatever the order of the runs against one working directory, a
\* notebook obtains the same columns in X every time it gets an X, whichever
\* notebook wrote data/processed_data.csv last
C19_SameColumnsInAnyOrder ==
    \A nb \in Notebooks : Cardinality(X_obtained[nb]) <= 1

\* ------------------------------------------------- Monte Carlo Dropout
\* survival probabilities the network gives without dropout (thousandths)
PlainValues == {400, 600}

\* survival probabilities the network gives under a dropout configuration
DropoutValues == {200, 800}

\* how many of the passes draw the first of two dropout configurations
\* (the others draw the second): none, all, or about half
MaskSplits == {0, (num_estimates \div 2) - 1, num_estimates \div 2,
               (num_estimates \div 2) + 1, num_estimates}

\* model(X_test_sc, training=...): with training the dropout layers are
\* active and the output is that of the configuration drawn; without, the
\* output of the whole network
model_call(net, training, mask) ==
    IF training THEN net.masks[mask] ELSE net.plain

\* sum of f[lo..hi], by halves
RECURSIVE SumBetween(_, _, _)
SumBetween(f, lo, hi) ==
    IF lo > hi THEN 0
    ELSE IF lo = hi THEN f[lo]
    ELSE LET mid == (lo + hi) \div 2
         IN  SumBetween(f, lo, mid) + SumBetween(f, mid + 1, hi)

\* stack.mean(axis=0): for each passenger the mean over the passes
mean_axis0(stack) ==
    [i \in 1..Len(stack[1]) |->
        np_divide(SumBetween([s \in 1..Len(stack) |-> stack[s][i]],
                             1, Len(stack)),
                  Len(stack))]

\* mutant: proba > 0.5
at_least_half_strict(proba) ==
    [i \in 1..Len(proba) |-> BoolVal(~FLeq(proba[i], FromInt(500)))]

\* proba >= 0.5 on probabilities in thousandths (True is 1, False is 0)
at_least_half(proba) ==
    [i \in 1..Len(proba) |-> BoolVal(FLeq(FromInt(500), proba[i]))]

\* the state after model.fit
McdInit ==
    /\ pc = "mcd_stack"
    /\ y_test \in BinaryVectors(NumTestRows)
    /\ \E plain \in [1..NumTestRows -> PlainValues],
          masks \in [1..2 -> [1..NumTestRows -> DropoutValues]] :
          model = [plain |-> plain, masks |-> masks]
    /\ y_probas_dropout = << >>
    /\ y_proba_dropout = << >>
    /\ y_predict_dropout = << >>
    /\ y_proba = << >>
    /\ y_predict = << >>
    /\ accuracy = NaN
    /\ accuracy_dropout = NaN
    /\ results = NoResults
    /\ AccIdle
    /\ probability_survival = << >>
    /\ thresholds = << >>
    /\ cutoff_index = 0
    /\ curve_fpr = << >>
    /\ curve_tpr = << >>
    /\ sensitivity = << >>
    /\ specificity = << >>
    /\ fpr = << >>
    /\ tpr = << >>
    /\ roc_auc = NaN
    /\ ROC_df = NoResults
    /\ halted = FALSE
    /\ StdIdle
    /\ RegIdle
    /\ FsIdle
    /\ FxIdle

\* y_probas_dropout = np.stack([model(X_test_sc, training=True)
\*                              for sample in range (num_estimates)])
StackDropoutPasses ==
    /\ pc = "mcd_stack"
    /\ \E split \in MaskSplits :
          y_probas_dropout' =
              [sample \in 1..num_estimates |->
                  model_call(model, TRUE, IF sample <= split THEN 1 ELSE 2)]
    /\ pc' = "mcd_mean"
    /\ UNCHANGED <<results, accVars, rocVars, stdVars, regVars, fsVars, fxVars, model,
                   y_proba_dropout, y_predict_dropout, y_proba, y_predict,
                   accuracy, accuracy_dropout>>

\* y_proba_dropout = y_probas_dropout.mean(axis=0)
\* y_predict_dropout = (y_proba_dropout >= 0.5).flatten()
MeanAndClassify ==
    /\ pc = "mcd_mean"
    /\ y_proba_dropout' = mean_axis0(y_probas_dropout)
    /\ y_predict_dropout' = at_least_half(y_proba_dropout')
    /\ pc' = "mcd_predict"
    /\ UNCHANGED <<results, accVars, rocVars, stdVars, regVars, fsVars, fxVars, model,
                   y_probas_dropout, y_proba, y_predict, accuracy,
                   accuracy_dropout>>

\* y_proba = model.predict(X_test_sc); y_predict = (y_proba >= 0.5).flatten()
NormalPredict ==
    /\ pc = "mcd_predict"
    /\ y_proba' = [i \in 1..NumTestRows |->
                      FromInt(model_call(model, FALSE, 1)[i])]
    /\ y_predict' = at_least_half(y_proba')
    /\ pc' = "mcd_accuracy"
    /\ UNCHANGED <<results, accVars, rocVars, stdVars, regVars, fsVars, fxVars, model,
                   y_probas_dropout, y_proba_dropout, y_predict_dropout,
                   accuracy, accuracy_dropout>>

\* accuracy = np.mean(y_predict == y_test)
\* accuracy_dropout = np.mean(y_predict_dropout == y_test)
ShowAccuracy ==
    /\ pc = "mcd_accuracy"
    /\ accuracy' = np_mean(EqVec(y_predict, y_test))
    /\ accuracy_dropout' = np_mean(EqVec(y_predict_dropout, y_test))
    /\ pc' = "mcd_done"
    /\ UNCHANGED <<results, accVars, rocVars, stdVars, regVars, fsVars, fxVars, model,
                   y_probas_dropout, y_proba_dropout, y_predict_dropout,
                   y_proba, y_predict>>

McdNext ==
    \/ StackDropoutPasses
    \/ MeanAndClassify
    \/ NormalPredict
    \/ ShowAccuracy

SpecMCD == McdInit /\ [][McdNext]_vars

\* C14: the stack that is averaged holds 30 passes, one for each of 30
\* dropout configurations
C14_ThirtyPasses ==
    pc \in {"mcd_mean", "mcd_predict", "mcd_accuracy", "mcd_done"} =>
        Len(y_probas_dropout) = 30

\* sum over the passes of passenger i's probability, counted value by value
StackTotal(i) ==
    LET values == {y_probas_dropout[s][i] : s \in 1..Len(y_probas_dropout)}
        Count(v) == Cardinality({s \in 1..Len(y_probas_dropout) :
                                    y_probas_dropout[s][i] = v})
        RECURSIVE Total(_)
        Total(vs) == IF vs = {} THEN 0
                     ELSE LET v == CHOOSE w \in vs : TRUE
                          IN  v * Count(v) + Total(vs \ {v})
    IN  Total(values)

\* share of the test passengers whose predicted class is the observed one
ShareCorrect(prediction) ==
    MkFloat(Cardinality({i \in 1..Len(y_test) : prediction[i] = y_test[i]}),
            Len(y_test))

\* C15: every pass of the stack is an output of the network with dropout
\* active; a passenger is classified as surviving by Monte Carlo Dropout
\* exactly when the mean of the passes is at least 0.5; the comparison
\* prediction is the output without dropout, cut at 0.5 as well; both
\* accuracies are the share of agreement with the same y_test
C15_DropoutPrediction ==
    pc = "mcd_done" =>
        /\ \A s \in 1..Len(y_probas_dropout) :
              y_probas_dropout[s] \in Range(model.masks)
        /\ \A i \in 1..Len(y_test) :
              /\ y_predict_dropout[i] = 1 <=>
                    2 * StackTotal(i) >= 1000 * Len(y_probas_dropout)
              /\ y_predict_dropout[i] \in {0, 1}
              /\ y_predict[i] = 1 <=> 2 * model.plain[i] >= 1000
              /\ y_predict[i] \in {0, 1}
        /\ accuracy = ShareCorrect(y_predict)
        /\ accuracy_dropout = ShareCorrect(y_predict_dropout)

\* a passenger's mean over the passes is exactly 0.5, and the two
\* predictions (and accuracies) differ
C15_Witness ==
    /\ pc = "mcd_done"
    /\ \E i \in 1..Len(y_test) :
          /\ 2 * StackTotal(i) = 1000 * Len(y_probas_dropout)
          /\ y_predict_dropout[i] = 1
          /\ y_predict[i] = 0
    /\ accuracy # accuracy_dropout

\* ------------------------------------------ 10_feature_expansion.ipynb
\* the numbers of columns X_df may have
FeatureCounts == (2..MaxFeatures) \cup {NumFeatures}

\* parameters of the accuracy a set of features reaches on the data
Signals == [slope : 0..MaxSlope, shift : {0, 1}]

\* sklearn's default of interaction_only
interaction_only_default == FALSE

\* PolynomialFeatures(2, interaction_only=True, ...)
interaction_only == TRUE

\* sklearn's default of include_bias
include_bias_default == TRUE

\* PolynomialFeatures(2, ..., include_bias=False)
include_bias == FALSE

\* the terms of degree 2 whose first factor is column i or a later one, in
\* sklearn's order: combinations (without a repeated column when only
\* interactions are wanted, with it otherwise)
RECURSIVE PairsFrom(_, _, _)
PairsFrom(i, n, interactions) ==
    IF i > n THEN << >>
    ELSE LET first == IF interactions THEN i + 1 ELSE i
         IN  [k \in 1..(n - first + 1) |-> <<i, first + k - 1>>]
                 \o PairsFrom(i + 1, n, interactions)

\* PolynomialFeatures(2, interaction_only, include_bias).fit on n columns:
\* the terms of the output, each the tuple of the columns multiplied
PolynomialFeatures(n, interactions, bias) ==
    (IF bias THEN << << >> >> ELSE << >>)
        \o [i \in 1..n |-> <<i>>]
        \o PairsFrom(1, n, interactions)

\* the name of a column of the input
InputName(i) == "x" \o ToString(i - 1)

\* poly.get_feature_names()
get_feature_names(terms) ==
    [k \in 1..Len(terms) |->
        IF terms[k] = << >> THEN "1"
        ELSE IF Len(terms[k]) = 1 THEN InputName(terms[k][1])
        ELSE IF terms[k][1] = terms[k][2] THEN InputName(terms[k][1]) \o "^2"
        ELSE InputName(terms[k][1]) \o " " \o InputName(terms[k][2])]

\* position of a name in a list of names
Position(names, name) == CHOOSE k \in 1..Len(names) : names[k] = name

\* feature_accuracy: the mean accuracy of the five folds of a logistic
\* regression on the chosen features and one more; what it is depends on the
\* data, of which the signal stands for
FeatureAccuracy(sig, names, chosen, feature) ==
    MkFloat((sig.slope * Position(names, feature)
                 + sig.shift * (Len(chosen) + 1)) % n_splits,
            n_splits)

\* best_result after "for feature in available_features": the largest
\* accuracy above 0, or 0
BestResult(accs) ==
    IF \A k \in 1..Len(accs) : FLeq(accs[k], FromInt(0))
    THEN FromInt(0)
    ELSE accs[CHOOSE k \in 1..Len(accs) :
                 \A l \in 1..Len(accs) : FLeq(accs[l], accs[k])]

\* best_feature after the loop: the first feature that reached best_result
\* (a later feature replaces it only with a larger accuracy), '' if none
\* was above 0
BestFeature(available, accs) ==
    IF \A k \in 1..Len(accs) : FLeq(accs[k], FromInt(0))
    THEN ""
    ELSE available[CHOOSE k \in 1..Len(accs) :
                      /\ \A l \in 1..Len(accs) : FLeq(accs[l], accs[k])
                      /\ \A l \in 1..(k - 1) : accs[l] # accs[k]]

\* mutant: nothing is removed
remove_nothing(list, x) == list

\* list.remove(x): the list without the first x
remove(list, x) ==
    LET at == CHOOSE k \in 1..Len(list) :
                 list[k] = x /\ \A l \in 1..(k - 1) : list[l] # x
    IN  [k \in 1..(Len(list) - 1) |-> IF k < at THEN list[k] ELSE list[k + 1]]

\* list.remove(x) raises ValueError when x is not in the list
remove_raises(list, x) == \A k \in 1..Len(list) : list[k] # x

\* the state after X_df is split from data
FxInit ==
    /\ pc = "fx_poly"
    /\ \E n \in FeatureCounts :
          X_df = [columns |-> [i \in 1..n |-> InputName(i)], values |-> << >>]
    /\ signal \in Signals
    /\ poly = << >>
    /\ X_poly_df = NoFrame
    /\ accuracy_by_feature_number = << >>
    /\ chosen_features = << >>
    /\ available_features = << >>
    /\ feature_run = 0
    /\ files = [p \in Paths |-> NoFile]
    /\ notebook = "feature_expansion"
    /\ run = 0
    /\ data_df = NoFrame
    /\ error = "none"
    /\ X_obtained = [nb \in Notebooks |-> {}]
    /\ results = NoResults
    /\ AccIdle
    /\ RocIdle
    /\ StdIdle
    /\ RegIdle
    /\ McdIdle

\* poly = PolynomialFeatures(2, interaction_only=True, include_bias=False)
\* X_poly = poly.fit_transform(X_df)
PolyFitTransform ==
    /\ pc = "fx_poly"
    /\ poly' = PolynomialFeatures(Len(X_df.columns), interaction_only,
                                  include_bias)
    /\ pc' = "fx_setup"
    /\ UNCHANGED <<results, accVars, rocVars, stdVars, regVars, fsVars, mcdVars,
                   X_poly_df, accuracy_by_feature_number, chosen_features,
                   available_features, feature_run, signal>>

\* X_poly_df, the lists and the run tracker before the selection loop
SelectionSetup ==
    /\ pc = "fx_setup"
    /\ X_poly_df' = [columns |-> get_feature_names(poly)]
    /\ accuracy_by_feature_number' = << >>
    /\ chosen_features' = << >>
    /\ available_features' = get_feature_names(poly)
    /\ feature_run' = 0
    /\ pc' = "fx_select"
    /\ UNCHANGED <<results, accVars, rocVars, stdVars, regVars, fsVars, mcdVars, poly,
                   signal>>

\* one pass of "for i in range(maximum_features_to_choose)"
SelectFeature ==
    /\ pc = "fx_select"
    /\ LET accs == [k \in 1..Len(available_features) |->
                       FeatureAccuracy(signal, X_poly_df.columns,
                                       chosen_features,
                                       available_features[k])]
           best_result == BestResult(accs)
           best_feature == BestFeature(available_features, accs)
       IN  /\ feature_run' = feature_run + 1
           /\ accuracy_by_feature_number' =
                  Append(accuracy_by_feature_number, best_result)
           /\ chosen_features' = Append(chosen_features, best_feature)
           /\ IF remove_raises(available_features, best_feature)
              THEN /\ error' = "ValueError"
                   /\ pc' = "fx_halted"
                   /\ UNCHANGED available_features
              ELSE /\ available_features' =
                          remove(available_features, best_feature)
                   /\ pc' = IF feature_run' = maximum_features_to_choose
                            THEN "fx_results" ELSE "fx_select"
                   /\ UNCHANGED error
    /\ UNCHANGED <<results, accVars, rocVars, stdVars, regVars, mcdVars, files, notebook,
                   run, data_df, X_df, X_obtained, poly, X_poly_df, signal>>

\* results = pd.DataFrame() with the columns 'feature to add' and 'accuracy'
PutResults ==
    /\ pc = "fx_results"
    /\ results' = [feature_to_add |-> chosen_features,
                   accuracy |-> accuracy_by_feature_number]
    /\ pc' = "fx_done"
    /\ UNCHANGED <<accVars, rocVars, stdVars, regVars, fsVars, mcdVars, fxVars>>

FxNext ==
    \/ PolyFitTransform
    \/ SelectionSetup
    \/ SelectFeature
    \/ PutResults

SpecFx == FxInit /\ [][FxNext]_vars

\* X_poly has been computed
Expanded == pc \in {"fx_setup", "fx_select", "fx_results", "fx_done", "fx_halted"}

Factors(term) == Range(term)

\* C17: for any number n of input features the expanded set holds each
\* original feature exactly once and the product of each unordered pair of
\* different features exactly once, and nothing else: no duplicate, no
\* power A.A and no constant column
C17_InteractionTermsOnly ==
    Expanded =>
        LET n == Len(X_df.columns)
            terms == 1..Len(poly)
        IN  /\ \A i \in 1..n :
                  Cardinality({k \in terms : poly[k] = <<i>>}) = 1
            /\ \A i \in 1..n : \A j \in (i + 1)..n :
                  Cardinality({k \in terms : Len(poly[k]) = 2
                                   /\ Factors(poly[k]) = {i, j}}) = 1
            /\ \A k \in terms :
                  /\ Len(poly[k]) \in {1, 2}
                  /\ Cardinality(Factors(poly[k])) = Len(poly[k])
                  /\ Factors(poly[k]) \subseteq 1..n
            /\ Len(poly) = n + (n * (n - 1)) \div 2
            /\ Cardinality(Range(get_feature_names(poly))) = Len(poly)

\* three features A, B, C have been expanded to A, B, C, A.B, A.C, B.C
C17_Witness ==
    /\ pc = "fx_setup"
    /\ Len(X_df.columns) = 3
    /\ poly = << <<1>>, <<2>>, <<3>>, <<1, 2>>, <<1, 3>>, <<2, 3>> >>

\* a selection round has just ended, or the loop has
BetweenRounds == pc \in {"fx_select", "fx_results", "fx_done"}

NoDuplicate(list) ==
    \A k \in 1..Len(list) : \A l \in 1..Len(list) : k # l => list[k] # list[l]

\* C18: after every round of the forward selection chosen_features has no
\* duplicate, chosen_features and available_features are disjoint and
\* together are the expanded feature list, and chosen_features and
\* accuracy_by_feature_number both have as many entries as rounds were
\* completed: 20 when the loop has ended
C18_SelectionInvariant ==
    BetweenRounds =>
        /\ NoDuplicate(chosen_features)
        /\ Range(chosen_features) \cap Range(available_features) = {}
        /\ Range(chosen_features) \cup Range(available_features)
              = Range(get_feature_names(poly))
        /\ Len(chosen_features) = feature_run
        /\ Len(accuracy_by_feature_number) = feature_run
        /\ Len(available_features) = Len(poly) - feature_run
        /\ pc \in {"fx_results", "fx_done"} => feature_run = 20
        /\ pc = "fx_done" =>
              /\ Len(results.feature_to_add) = 20
              /\ Len(results.accuracy) = 20

\* the loop has ended on the 24-feature table with 20 features chosen, a
\* product of two features among them
C18_Witness ==
    /\ pc = "fx_done"
    /\ Len(X_df.columns) = 24
    /\ Len(chosen_features) = 20
    /\ Len(available_features) = 280
    /\ \E k \in 1..Len(poly) :
          /\ Len(poly[k]) = 2
          /\ get_feature_names(poly)[k] \in Range(chosen_features)

====
